---- MODULE Spec2Model ----
(***************************************************************************)
(* microFSM event dispatch (src/src/event.c): mfsm_Event,                  *)
(* mfsm_EventListener (a bounded event buffer) and mfsm_EventQueue (a      *)
(* bounded registry of listener pointers with a broadcast operation).      *)
(*                                                                         *)
(* One mfsm_EventQueue and the mfsm_EventListener objects of the set       *)
(* Listeners are modelled; events are passed by value.                     *)
(* Array indices are the C indices (0-based).                              *)
(***************************************************************************)
EXTENDS Integers, Sequences, FiniteSets, TLC

\* Capacities of a listener's buffer and of the queue's registry. event.h,
\* which sets them, is not among the sources: small values stand for them.
MAX_EVENTS == 2
MAX_EVENT_LISTENERS == 3

\* The null pointer (written 0 in the source).
NULL == 0
\* Addresses of the mfsm_EventListener objects of the caller (non-null).
Listeners == {1, 2}
\* Values of mfsm_Event.id used by the callers (non-zero, so that a
\* destination holding an event is told from a null destination).
EventIds == {1, 2}

EventIndex == 0 .. (MAX_EVENTS - 1)
SlotIndex == 0 .. (MAX_EVENT_LISTENERS - 1)

VARIABLES
  numEvents,     \* numEvents[l]  : el->numEvents of listener l
  events,        \* events[l][i]  : el->events[i].id of listener l
  listeners,     \* listeners[i]  : eq->listeners[i], a listener or NULL
  numListeners,  \* eq->numListeners
  arrival,       \* history: arrival[l] is the sequence of buffer indices of l
                 \* holding an event appended and not yet dequeued, oldest first
  lastOp         \* the last call: its name, arguments and return value

vars == <<numEvents, events, listeners, numListeners, arrival, lastOp>>

\* The listener memory, as one value handed to the functions below.
Heap == [numEvents |-> numEvents, events |-> events, arrival |-> arrival]

\* The queue, as the by-value argument of sendEvent.
Queue == [numListeners |-> numListeners, listeners |-> listeners]

\* A call and its result: eqNull says that the queue pointer was null, el is
\* the listener argument, e the id of the event argument (0: none), dest the
\* destination before the call (NULL: a null pointer) and out its id after it.
\* acc and slots are the indices at which the call read or wrote an events
\* array and the listeners array.  again says that the call repeated the call
\* before it: both were addListener calls that returned 0 for the same el.
Call(op, eqNull, el, e, dest, ret, out) ==
  [op |-> op, eqNull |-> eqNull, el |-> el, e |-> e, dest |-> dest,
   ret |-> ret, out |-> out, acc |-> {}, slots |-> {}, again |-> FALSE]

\* The call c, having accessed events[i] for the i of acc and listeners[i]
\* for the i of slots.
Accessing(c, acc, slots) == [c EXCEPT !.acc = acc, !.slots = slots]

\* The call c, marked as a repetition when it and the call prev before it are
\* both successful addListener calls for the same listener.
Repeating(c, prev) ==
  [c EXCEPT !.again = /\ c.op = "addListener" /\ c.ret = 0
                      /\ prev.op = "addListener" /\ prev.ret = 0
                      /\ prev.el = c.el]

\* void initEvent(mfsm_Event *e, int id): the event built.
initEvent(id) == id

\* Remove the last occurrence of index k from the sequence s.
RECURSIVE RemoveLast(_, _)
RemoveLast(s, k) ==
  IF s = << >> THEN << >>
  ELSE IF s[Len(s)] = k THEN SubSeq(s, 1, Len(s) - 1)
  ELSE Append(RemoveLast(SubSeq(s, 1, Len(s) - 1), k), s[Len(s)])

(***************************************************************************)
(* EventListener functions                                                 *)
(***************************************************************************)

\* void initEventListener(mfsm_EventListener *el): the listener memory
\* afterwards.  Only numEvents is written, the buffer keeps its bytes.
initEventListener(H, el) ==
  [H EXCEPT !.numEvents[el] = 0, !.arrival[el] = << >>]

\* appendEvent with the capacity test off by one: writes past the buffer.
appendEventOffByOne(H, el, e) ==
  IF el = NULL THEN [ret |-> -1, heap |-> H, acc |-> {}]
  ELSE IF H.numEvents[el] > MAX_EVENTS THEN
    [ret |-> -2, heap |-> H, acc |-> {}]
  ELSE
    LET n == H.numEvents[el] IN
    [ret |-> n + 1, acc |-> {n},
     heap |-> [numEvents |-> [H.numEvents EXCEPT ![el] = n + 1],
               events |-> IF n \in EventIndex
                          THEN [H.events EXCEPT ![el][n] = e] ELSE H.events,
               arrival |-> [H.arrival EXCEPT ![el] = Append(@, n)]]]

\* int appendEvent(mfsm_EventListener *el, mfsm_Event e): the return value
\* and the listener memory afterwards.
appendEvent(H, el, e) ==
  IF el = NULL THEN [ret |-> -1, heap |-> H, acc |-> {}]
  ELSE IF H.numEvents[el] >= MAX_EVENTS THEN
    [ret |-> -2, heap |-> H, acc |-> {}]
  ELSE
    LET n == H.numEvents[el] IN
    [ret |-> n + 1, acc |-> {n},
     heap |-> [numEvents |-> [H.numEvents EXCEPT ![el] = n + 1],
               events |-> [H.events EXCEPT ![el][n] = e],
               arrival |-> [H.arrival EXCEPT ![el] = Append(@, n)]]]

\* getNextEvent copying the oldest buffered event (index 0) instead of the
\* one at numEvents-1.
getNextEventOldest(H, el, dest) ==
  IF el = NULL THEN {[ret |-> -1, heap |-> H, dest |-> dest, acc |-> {}]}
  ELSE IF dest = NULL THEN {[ret |-> -2, heap |-> H, dest |-> dest, acc |-> {}]}
  ELSE IF H.numEvents[el] < 1 THEN {[ret |-> -3, heap |-> H, dest |-> dest, acc |-> {}]}
  ELSE
    LET n == H.numEvents[el] IN
    {[ret |-> n - 1, acc |-> {0},
      dest |-> H.events[el][0],
      heap |-> [H EXCEPT !.numEvents[el] = n - 1,
                         !.arrival[el] = RemoveLast(@, 0)]]}

\* getNextEvent with the emptiness test off by one (numEvents < 0): on an
\* empty listener it reads events[-1], an indeterminate value, and leaves
\* numEvents at -1.
getNextEventNoEmptyCheck(H, el, dest) ==
  IF el = NULL THEN {[ret |-> -1, heap |-> H, dest |-> dest, acc |-> {}]}
  ELSE IF dest = NULL THEN {[ret |-> -2, heap |-> H, dest |-> dest, acc |-> {}]}
  ELSE IF H.numEvents[el] < 0 THEN {[ret |-> -3, heap |-> H, dest |-> dest, acc |-> {}]}
  ELSE
    LET n == H.numEvents[el] IN
    {[ret |-> n - 1, acc |-> {n - 1},
      dest |-> v,
      heap |-> [H EXCEPT !.numEvents[el] = n - 1,
                         !.arrival[el] = RemoveLast(@, n - 1)]] :
       v \in IF n - 1 \in EventIndex THEN {H.events[el][n - 1]} ELSE EventIds}

\* getNextEvent testing the destination before the listener.
getNextEventDestFirst(H, el, dest) ==
  IF dest = NULL THEN {[ret |-> -2, heap |-> H, dest |-> dest, acc |-> {}]}
  ELSE IF el = NULL THEN {[ret |-> -1, heap |-> H, dest |-> dest, acc |-> {}]}
  ELSE IF H.numEvents[el] < 1 THEN {[ret |-> -3, heap |-> H, dest |-> dest, acc |-> {}]}
  ELSE
    LET n == H.numEvents[el] IN
    {[ret |-> n - 1, acc |-> {n - 1},
      dest |-> H.events[el][n - 1],
      heap |-> [H EXCEPT !.numEvents[el] = n - 1,
                         !.arrival[el] = RemoveLast(@, n - 1)]]}

\* int getNextEvent(mfsm_EventListener *el, mfsm_Event *dest): the set of
\* outcomes (one, the code being deterministic): return value, listener
\* memory and dest->id afterwards.  The argument dest is NULL for a null
\* pointer and otherwise the value of dest->id before the call.
getNextEvent(H, el, dest) ==
  IF el = NULL THEN {[ret |-> -1, heap |-> H, dest |-> dest, acc |-> {}]}
  ELSE IF dest = NULL THEN {[ret |-> -2, heap |-> H, dest |-> dest, acc |-> {}]}
  ELSE IF H.numEvents[el] < 1 THEN {[ret |-> -3, heap |-> H, dest |-> dest, acc |-> {}]}
  ELSE
    LET n == H.numEvents[el] IN
    {[ret |-> n - 1, acc |-> {n - 1},
      dest |-> H.events[el][n - 1],
      heap |-> [H EXCEPT !.numEvents[el] = n - 1,
                         !.arrival[el] = RemoveLast(@, n - 1)]]}

(***************************************************************************)
(* EventQueue functions                                                    *)
(***************************************************************************)

\* initEventQueue that resets eq->numListeners and leaves the slots.
initEventQueueNoClear(Q) == [Q EXCEPT !.numListeners = 0]

\* void initEventQueue(mfsm_EventQueue *eq): the queue afterwards.
initEventQueue(Q) ==
  [numListeners |-> 0, listeners |-> [i \in SlotIndex |-> NULL]]

\* addListener that forgets eq->numListeners++.
addListenerNoInc(Q, eqNull, el) ==
  IF eqNull THEN [ret |-> -1, queue |-> Q, slots |-> {}]
  ELSE IF el = NULL THEN [ret |-> -3, queue |-> Q, slots |-> {}]
  ELSE IF Q.numListeners >= MAX_EVENT_LISTENERS THEN [ret |-> -2, queue |-> Q, slots |-> {}]
  ELSE IF \E i \in SlotIndex : Q.listeners[i] = NULL THEN
    LET i == CHOOSE j \in SlotIndex :
               /\ Q.listeners[j] = NULL
               /\ \A k \in SlotIndex : k < j => Q.listeners[k] # NULL
    IN [ret |-> 0, slots |-> 0 .. i, queue |-> [Q EXCEPT !.listeners[i] = el]]
  ELSE [ret |-> -2, queue |-> Q, slots |-> SlotIndex]

\* addListener that detects a listener already held in a slot and returns 0
\* without storing it again.
addListenerOnce(Q, eqNull, el) ==
  IF eqNull THEN [ret |-> -1, queue |-> Q, slots |-> {}]
  ELSE IF el = NULL THEN [ret |-> -3, queue |-> Q, slots |-> {}]
  ELSE IF Q.numListeners >= MAX_EVENT_LISTENERS THEN [ret |-> -2, queue |-> Q, slots |-> {}]
  ELSE IF \E i \in SlotIndex : Q.listeners[i] = el THEN
    [ret |-> 0, queue |-> Q, slots |-> SlotIndex]
  ELSE IF \E i \in SlotIndex : Q.listeners[i] = NULL THEN
    LET i == CHOOSE j \in SlotIndex :
               /\ Q.listeners[j] = NULL
               /\ \A k \in SlotIndex : k < j => Q.listeners[k] # NULL
    IN [ret |-> 0, slots |-> 0 .. i,
        queue |-> [Q EXCEPT !.listeners[i] = el, !.numListeners = @ + 1]]
  ELSE [ret |-> -2, queue |-> Q, slots |-> SlotIndex]

\* addListener scanning from the last slot down: it stores the listener in
\* the highest empty slot.
addListenerLastFree(Q, eqNull, el) ==
  IF eqNull THEN [ret |-> -1, queue |-> Q, slots |-> {}]
  ELSE IF el = NULL THEN [ret |-> -3, queue |-> Q, slots |-> {}]
  ELSE IF Q.numListeners >= MAX_EVENT_LISTENERS THEN [ret |-> -2, queue |-> Q, slots |-> {}]
  ELSE IF \E i \in SlotIndex : Q.listeners[i] = NULL THEN
    LET i == CHOOSE j \in SlotIndex :
               /\ Q.listeners[j] = NULL
               /\ \A k \in SlotIndex : k > j => Q.listeners[k] # NULL
    IN [ret |-> 0, slots |-> i .. (MAX_EVENT_LISTENERS - 1),
        queue |-> [Q EXCEPT !.listeners[i] = el, !.numListeners = @ + 1]]
  ELSE [ret |-> -2, queue |-> Q, slots |-> SlotIndex]

\* int addListener(mfsm_EventQueue *eq, mfsm_EventListener *el)
addListener(Q, eqNull, el) ==
  IF eqNull THEN [ret |-> -1, queue |-> Q, slots |-> {}]
  ELSE IF el = NULL THEN [ret |-> -3, queue |-> Q, slots |-> {}]
  ELSE IF Q.numListeners >= MAX_EVENT_LISTENERS THEN [ret |-> -2, queue |-> Q, slots |-> {}]
  ELSE IF \E i \in SlotIndex : Q.listeners[i] = NULL THEN
    LET i == CHOOSE j \in SlotIndex :
               /\ Q.listeners[j] = NULL
               /\ \A k \in SlotIndex : k < j => Q.listeners[k] # NULL
    IN [ret |-> 0, slots |-> 0 .. i,
        queue |-> [Q EXCEPT !.listeners[i] = el, !.numListeners = @ + 1]]
  ELSE [ret |-> -2, queue |-> Q, slots |-> SlotIndex]

\* removeListener that forgets eq->numListeners--.
removeListenerNoDec(Q, eqNull, el) ==
  IF eqNull THEN [ret |-> -1, queue |-> Q, slots |-> {}]
  ELSE IF el = NULL THEN [ret |-> -3, queue |-> Q, slots |-> {}]
  ELSE IF Q.numListeners < 1 THEN [ret |-> -2, queue |-> Q, slots |-> {}]
  ELSE IF \E i \in SlotIndex : Q.listeners[i] = el THEN
    LET i == CHOOSE j \in SlotIndex :
               /\ Q.listeners[j] = el
               /\ \A k \in SlotIndex : k < j => Q.listeners[k] # el
    IN [ret |-> 0, slots |-> 0 .. i, queue |-> [Q EXCEPT !.listeners[i] = NULL]]
  ELSE [ret |-> -4, queue |-> Q, slots |-> SlotIndex]

\* removeListener that decrements eq->numListeners before it scans, found
\* or not.
removeListenerDecFirst(Q, eqNull, el) ==
  IF eqNull THEN [ret |-> -1, queue |-> Q, slots |-> {}]
  ELSE IF el = NULL THEN [ret |-> -3, queue |-> Q, slots |-> {}]
  ELSE IF Q.numListeners < 1 THEN [ret |-> -2, queue |-> Q, slots |-> {}]
  ELSE IF \E i \in SlotIndex : Q.listeners[i] = el THEN
    LET i == CHOOSE j \in SlotIndex :
               /\ Q.listeners[j] = el
               /\ \A k \in SlotIndex : k < j => Q.listeners[k] # el
    IN [ret |-> 0, slots |-> 0 .. i,
        queue |-> [Q EXCEPT !.listeners[i] = NULL, !.numListeners = @ - 1]]
  ELSE [ret |-> -4, queue |-> [Q EXCEPT !.numListeners = @ - 1],
        slots |-> SlotIndex]

\* removeListener without the test of eq->numListeners < 1.
removeListenerNoEmptyCheck(Q, eqNull, el) ==
  IF eqNull THEN [ret |-> -1, queue |-> Q, slots |-> {}]
  ELSE IF el = NULL THEN [ret |-> -3, queue |-> Q, slots |-> {}]
  ELSE IF \E i \in SlotIndex : Q.listeners[i] = el THEN
    LET i == CHOOSE j \in SlotIndex :
               /\ Q.listeners[j] = el
               /\ \A k \in SlotIndex : k < j => Q.listeners[k] # el
    IN [ret |-> 0, slots |-> 0 .. i,
        queue |-> [Q EXCEPT !.listeners[i] = NULL, !.numListeners = @ - 1]]
  ELSE [ret |-> -4, queue |-> Q, slots |-> SlotIndex]

\* removeListener that decrements eq->numListeners and leaves the pointer in
\* its slot.
removeListenerNoClear(Q, eqNull, el) ==
  IF eqNull THEN [ret |-> -1, queue |-> Q, slots |-> {}]
  ELSE IF el = NULL THEN [ret |-> -3, queue |-> Q, slots |-> {}]
  ELSE IF Q.numListeners < 1 THEN [ret |-> -2, queue |-> Q, slots |-> {}]
  ELSE IF \E i \in SlotIndex : Q.listeners[i] = el THEN
    LET i == CHOOSE j \in SlotIndex :
               /\ Q.listeners[j] = el
               /\ \A k \in SlotIndex : k < j => Q.listeners[k] # el
    IN [ret |-> 0, slots |-> 0 .. i,
        queue |-> [Q EXCEPT !.numListeners = @ - 1]]
  ELSE [ret |-> -4, queue |-> Q, slots |-> SlotIndex]

\* int removeListener(mfsm_EventQueue *eq, mfsm_EventListener *el)
removeListener(Q, eqNull, el) ==
  IF eqNull THEN [ret |-> -1, queue |-> Q, slots |-> {}]
  ELSE IF el = NULL THEN [ret |-> -3, queue |-> Q, slots |-> {}]
  ELSE IF Q.numListeners < 1 THEN [ret |-> -2, queue |-> Q, slots |-> {}]
  ELSE IF \E i \in SlotIndex : Q.listeners[i] = el THEN
    LET i == CHOOSE j \in SlotIndex :
               /\ Q.listeners[j] = el
               /\ \A k \in SlotIndex : k < j => Q.listeners[k] # el
    IN [ret |-> 0, slots |-> 0 .. i,
        queue |-> [Q EXCEPT !.listeners[i] = NULL, !.numListeners = @ - 1]]
  ELSE [ret |-> -4, queue |-> Q, slots |-> SlotIndex]

\* The loop of sendEvent from index i on: appendEvent(eq.listeners[i], e) for
\* every i < eq.numListeners, counting the calls that returned an error.
RECURSIVE sendLoop(_, _, _, _, _)
sendLoop(Q, H, e, i, numErrors) ==
  IF i < Q.numListeners THEN
    LET r == appendEvent(H, Q.listeners[i], e)
        rest == sendLoop(Q, r.heap, e, i + 1,
                         IF r.ret < 0 THEN numErrors + 1 ELSE numErrors)
    IN [rest EXCEPT !.acc = @ \cup r.acc, !.slots = @ \cup {i}]
  ELSE [numErrors |-> numErrors, heap |-> H, acc |-> {}, slots |-> {}]

\* sendEvent taking the queue by pointer and subtracting the listeners that
\* failed from eq->numListeners.
sendEventDropsFailed(Q, H, e) ==
  LET r == sendLoop(Q, H, e, 0, 0) IN
  [ret |-> IF r.numErrors # 0 THEN -1 ELSE 0, heap |-> r.heap,
   acc |-> r.acc, slots |-> r.slots,
   queue |-> [Q EXCEPT !.numListeners = @ - r.numErrors]]

\* int sendEvent(mfsm_EventQueue eq, mfsm_Event e): the return value, the
\* listener memory and the caller's queue afterwards (eq is a copy of it and
\* is only read).
sendEvent(Q, H, e) ==
  LET r == sendLoop(Q, H, e, 0, 0) IN
  [ret |-> IF r.numErrors # 0 THEN -1 ELSE 0, heap |-> r.heap,
   acc |-> r.acc, slots |-> r.slots, queue |-> Q]

(***************************************************************************)
(* The calls a client can make                                             *)
(***************************************************************************)

SetHeap(H) ==
  /\ numEvents' = H.numEvents
  /\ events' = H.events
  /\ arrival' = H.arrival

\* initEventListener(el): the buffer keeps its bytes.
InitEventListener ==
  \E el \in Listeners :
    /\ SetHeap(initEventListener(Heap, el))
    /\ lastOp' = Call("initEventListener", FALSE, el, 0, NULL, 0, NULL)
    /\ UNCHANGED <<listeners, numListeners>>

\* getNextEvent(el, &d) with a listener and a destination holding dest.
GetNextEvent ==
  \E el \in Listeners, dest \in EventIds :
    \E r \in getNextEvent(Heap, el, dest) :
      /\ SetHeap(r.heap)
      /\ lastOp' = Accessing(Call("getNextEvent", FALSE, el, 0, dest, r.ret, r.dest),
                              r.acc, {})
      /\ UNCHANGED <<listeners, numListeners>>

\* getNextEvent with a null listener, a null destination or both.
GetNextEventNull ==
  \E el \in Listeners \cup {NULL}, dest \in EventIds \cup {NULL} :
    /\ el = NULL \/ dest = NULL
    /\ \E r \in getNextEvent(Heap, el, dest) :
         /\ SetHeap(r.heap)
         /\ lastOp' = Accessing(Call("getNextEvent", FALSE, el, 0, dest, r.ret, r.dest),
                              r.acc, {})
         /\ UNCHANGED <<listeners, numListeners>>

\* appendEvent(el, e) with a listener.
AppendEvent ==
  \E el \in Listeners, id \in EventIds :
    \E r \in {appendEvent(Heap, el, initEvent(id))} :
      /\ SetHeap(r.heap)
      /\ lastOp' = Accessing(Call("appendEvent", FALSE, el, id, NULL, r.ret, NULL),
                              r.acc, {})
      /\ UNCHANGED <<listeners, numListeners>>

\* appendEvent(0, e).
AppendEventNull ==
  \E id \in EventIds :
    \E r \in {appendEvent(Heap, NULL, initEvent(id))} :
      /\ SetHeap(r.heap)
      /\ lastOp' = Accessing(Call("appendEvent", FALSE, NULL, id, NULL, r.ret, NULL),
                              r.acc, {})
      /\ UNCHANGED <<listeners, numListeners>>

InitEventQueue ==
  /\ numListeners' = initEventQueue(Queue).numListeners
  /\ listeners' = initEventQueue(Queue).listeners
  /\ lastOp' = Accessing(Call("initEventQueue", FALSE, NULL, 0, NULL, 0, NULL),
                         {}, SlotIndex)
  /\ UNCHANGED <<numEvents, events, arrival>>

\* addListener(&eq, el) with a queue and a listener.
AddListener ==
  \E el \in Listeners :
    \E r \in {addListener(Queue, FALSE, el)} :
      /\ listeners' = r.queue.listeners
      /\ numListeners' = r.queue.numListeners
      /\ lastOp' = Repeating(Accessing(Call("addListener", FALSE, el, 0, NULL,
                                              r.ret, NULL), {}, r.slots),
                              lastOp)
      /\ UNCHANGED <<numEvents, events, arrival>>

\* addListener with a null queue, a null listener or both.
AddListenerNull ==
  \E eqNull \in BOOLEAN, el \in Listeners \cup {NULL} :
    /\ eqNull \/ el = NULL
    /\ \E r \in {addListener(Queue, eqNull, el)} :
         /\ listeners' = r.queue.listeners
         /\ numListeners' = r.queue.numListeners
         /\ lastOp' = Accessing(Call("addListener", eqNull, el, 0, NULL, r.ret, NULL),
                              {}, r.slots)
         /\ UNCHANGED <<numEvents, events, arrival>>

\* removeListener(&eq, el) with a queue and a listener.
RemoveListener ==
  \E el \in Listeners :
    \E r \in {removeListener(Queue, FALSE, el)} :
      /\ listeners' = r.queue.listeners
      /\ numListeners' = r.queue.numListeners
      /\ lastOp' = Accessing(Call("removeListener", FALSE, el, 0, NULL, r.ret, NULL),
                              {}, r.slots)
      /\ UNCHANGED <<numEvents, events, arrival>>

\* removeListener with a null queue, a null listener or both.
RemoveListenerNull ==
  \E eqNull \in BOOLEAN, el \in Listeners \cup {NULL} :
    /\ eqNull \/ el = NULL
    /\ \E r \in {removeListener(Queue, eqNull, el)} :
         /\ listeners' = r.queue.listeners
         /\ numListeners' = r.queue.numListeners
         /\ lastOp' = Accessing(Call("removeListener", eqNull, el, 0, NULL, r.ret, NULL),
                              {}, r.slots)
         /\ UNCHANGED <<numEvents, events, arrival>>

\* sendEvent(eq, e): eq is passed by value, the caller's queue is not written.
SendEvent ==
  \E id \in EventIds :
    \E r \in {sendEvent(Queue, Heap, initEvent(id))} :
      /\ SetHeap(r.heap)
      /\ listeners' = r.queue.listeners
      /\ numListeners' = r.queue.numListeners
      /\ lastOp' = Accessing(Call("sendEvent", FALSE, NULL, id, NULL, r.ret, NULL),
                             r.acc, r.slots)

\* After construction: initEventListener on every listener and
\* initEventQueue on the queue.  initEventListener does not write the buffer:
\* its slots hold what the memory held before, one id g of EventIds here (no
\* function reads a slot at or above numEvents, and any mix of ids is reached
\* by appending and dequeuing).
Init ==
  /\ numEvents = [l \in Listeners |-> 0]
  /\ \E g \in EventIds : events = [l \in Listeners |-> [i \in EventIndex |-> g]]
  /\ arrival = [l \in Listeners |-> << >>]
  /\ numListeners = 0
  /\ listeners = [i \in SlotIndex |-> NULL]
  /\ lastOp = Call("init", FALSE, NULL, 0, NULL, 0, NULL)

\* Every call, null arguments included.
Next ==
  \/ InitEventListener
  \/ GetNextEvent
  \/ GetNextEventNull
  \/ AppendEvent
  \/ AppendEventNull
  \/ InitEventQueue
  \/ AddListener
  \/ AddListenerNull
  \/ RemoveListener
  \/ RemoveListenerNull
  \/ SendEvent

Spec == Init /\ [][Next]_vars

\* Listeners filled directly and by broadcast, drained and reset, and
\* registered any number of times with a queue that is reset too.
NextDeliver ==
  \/ InitEventListener
  \/ GetNextEvent
  \/ AppendEvent
  \/ InitEventQueue
  \/ AddListener
  \/ SendEvent

SpecDeliver == Init /\ [][NextDeliver]_vars

\* The calls on listeners alone: no listener is registered with the queue.
NextListener ==
  \/ InitEventListener
  \/ GetNextEvent
  \/ GetNextEventNull
  \/ AppendEvent
  \/ AppendEventNull

SpecListener == Init /\ [][NextListener]_vars

\* The calls on the queue: listeners receive events by broadcast only.
NextQueue ==
  \/ InitEventQueue
  \/ AddListener
  \/ AddListenerNull
  \/ RemoveListener
  \/ RemoveListenerNull
  \/ SendEvent

SpecQueue == Init /\ [][NextQueue]_vars

(***************************************************************************)
(* Properties                                                              *)
(***************************************************************************)

\* l is held in some slot of the queue.
Registered(l) == \E i \in SlotIndex : listeners[i] = l

\* The number of slots of the queue that hold l.
Occurrences(l) == Cardinality({i \in SlotIndex : listeners[i] = l})

\* The ids of the events appended to l and not yet dequeued, oldest first.
PendingOf(ev, arr, l) == [k \in 1 .. Len(arr[l]) |-> ev[l][arr[l][k]]]
Pending(l) == PendingOf(events, arrival, l)

\* The step is a call of op.
Called(op) == lastOp'.op = op

\* The step is a getNextEvent that returned a count.
Dequeued == Called("getNextEvent") /\ lastOp'.ret >= 0

\* C1: sendEvent(q, e) appends e to every listener held in a non-empty slot
\* of q: each registered listener with room has its count raised (by exactly
\* one when it is held in one slot) and e as its most recently appended event.
C1_SendReachesEveryRegistered ==
  [][Called("sendEvent") =>
       \A l \in Listeners :
         (Registered(l) /\ numEvents[l] < MAX_EVENTS) =>
           /\ numEvents'[l] > numEvents[l]
           /\ (Occurrences(l) = 1 => numEvents'[l] = numEvents[l] + 1)
           /\ events'[l][numEvents'[l] - 1] = lastOp'.e]_vars

\* C2: sendEvent returns -1 if the enqueue into at least one registered
\* listener fails (the listener has no room for one event per slot holding
\* it) and 0 otherwise, in particular whenever every registered listener has
\* room.
C2_SendReturnsFailureIffSomeEnqueueFails ==
  [][Called("sendEvent") =>
       IF \E l \in Listeners :
            Registered(l) /\ numEvents[l] + Occurrences(l) > MAX_EVENTS
       THEN lastOp'.ret = -1
       ELSE lastOp'.ret = 0]_vars

\* C3: with a full listener a and a listener b with room both registered,
\* sendEvent returns -1, b receives the event (its count grows, by one when
\* it is held in one slot, and the event is its most recent one) and the
\* count and buffer of a are unchanged.
C3_PartialFailureStillDelivers ==
  [][Called("sendEvent") =>
       \A a, b \in Listeners :
         (/\ Registered(a) /\ numEvents[a] = MAX_EVENTS
          /\ Registered(b) /\ numEvents[b] < MAX_EVENTS) =>
           /\ lastOp'.ret = -1
           /\ numEvents'[b] > numEvents[b]
           /\ (Occurrences(b) = 1 => numEvents'[b] = numEvents[b] + 1)
           /\ events'[b][numEvents'[b] - 1] = lastOp'.e
           /\ numEvents'[a] = numEvents[a]
           /\ events'[a] = events[a]]_vars

\* C4: numListeners equals the number of non-empty slots of the listeners
\* array, whatever addListener, removeListener and sendEvent calls were made.
C4_NumListenersCountsSlots ==
  numListeners = Cardinality({i \in SlotIndex : listeners[i] # NULL})

\* C4 witness: a failed broadcast on a queue with a hole below an occupied
\* slot and a listener registered twice.
C4_Witness ==
  /\ lastOp.op = "sendEvent"
  /\ lastOp.ret = -1
  /\ \E i, j \in SlotIndex : i < j /\ listeners[i] = NULL /\ listeners[j] # NULL
  /\ \E l \in Listeners : Occurrences(l) >= 2

\* C5: the count of every listener stays within 0 .. MAX_EVENTS.
C5_CountInRange ==
  \A l \in Listeners : numEvents[l] >= 0 /\ numEvents[l] <= MAX_EVENTS

\* C5 witness: a broadcast that failed on a full listener registered twice.
C5_Witness ==
  /\ lastOp.op = "sendEvent"
  /\ lastOp.ret = -1
  /\ \E l \in Listeners : Occurrences(l) >= 2 /\ numEvents[l] = MAX_EVENTS

C7_DequeueIsFifo ==
  [][Dequeued =>
       LET l == lastOp'.el
           p == Pending(l)
       IN /\ Len(p) > 0
          /\ lastOp'.out = p[1]
          /\ PendingOf(events', arrival', l) = SubSeq(p, 2, Len(p))]_vars

\* C8: initEventListener sets the count to 0; the count is the number of
\* events appended and not dequeued since; appendEvent on a listener with
\* count n < MAX_EVENTS stores the event at index n and returns n + 1, the
\* new count (so the k-th consecutive append on an initialised listener
\* returns k); on a listener with count MAX_EVENTS it returns -2 and leaves
\* the counts and buffers unchanged.
C8_AppendCountsUpToCapacity ==
  /\ [](\A l \in Listeners : numEvents[l] = Len(arrival[l]))
  /\ [][/\ Called("initEventListener") => numEvents'[lastOp'.el] = 0
        /\ (Called("appendEvent") /\ lastOp'.el # NULL) =>
             LET l == lastOp'.el
                 n == numEvents[l]
             IN IF n < MAX_EVENTS
                THEN /\ lastOp'.ret = n + 1
                     /\ numEvents' = [numEvents EXCEPT ![l] = n + 1]
                     /\ events' = [events EXCEPT ![l][n] = lastOp'.e]
                ELSE /\ n = MAX_EVENTS
                     /\ lastOp'.ret = -2
                     /\ UNCHANGED <<numEvents, events>>]_vars

\* C8 witness: an appendEvent refused with -2 by a listener that MAX_EVENTS
\* appends filled.
C8_Witness ==
  /\ lastOp.op = "appendEvent"
  /\ lastOp.el # NULL
  /\ lastOp.ret = -2
  /\ Len(arrival[lastOp.el]) = MAX_EVENTS

\* C9: getNextEvent with a listener of count 0 and a destination returns -3
\* and leaves the counts, the buffers and the destination event unchanged.
C9_DequeueOnEmptyFails ==
  [][(/\ Called("getNextEvent")
      /\ lastOp'.el # NULL
      /\ lastOp'.dest # NULL
      /\ numEvents[lastOp'.el] = 0) =>
       /\ lastOp'.ret = -3
       /\ lastOp'.out = lastOp'.dest
       /\ UNCHANGED <<numEvents, events>>]_vars

\* C9 witness: a getNextEvent that returned -3 on an empty listener whose
\* buffer holds, at index 0, an id other than the destination's.
C9_Witness ==
  /\ lastOp.op = "getNextEvent"
  /\ lastOp.ret = -3
  /\ lastOp.el # NULL
  /\ lastOp.dest # NULL
  /\ numEvents[lastOp.el] = 0
  /\ events[lastOp.el][0] # lastOp.out

\* C10: numListeners never exceeds MAX_EVENT_LISTENERS; addListener with a
\* queue and a listener returns 0 and raises numListeners by one while
\* numListeners < MAX_EVENT_LISTENERS (so the first MAX_EVENT_LISTENERS calls
\* on an initialised queue succeed), and returns -2 without changing the
\* registry when numListeners = MAX_EVENT_LISTENERS.
C10_AddListenerUpToCapacity ==
  /\ [](numListeners <= MAX_EVENT_LISTENERS)
  /\ [][(Called("addListener") /\ ~lastOp'.eqNull /\ lastOp'.el # NULL) =>
          IF numListeners < MAX_EVENT_LISTENERS
          THEN /\ lastOp'.ret = 0
               /\ numListeners' = numListeners + 1
          ELSE /\ lastOp'.ret = -2
               /\ UNCHANGED <<listeners, numListeners>>]_vars

\* C10 witness: an addListener refused with -2 by a queue whose slots are
\* all occupied.
C10_Witness ==
  /\ lastOp.op = "addListener"
  /\ lastOp.ret = -2
  /\ numListeners = MAX_EVENT_LISTENERS
  /\ \A i \in SlotIndex : listeners[i] # NULL

\* The step is a removeListener with a queue and a listener.
RemoveCalled == Called("removeListener") /\ ~lastOp'.eqNull /\ lastOp'.el # NULL

\* C11: removeListener(q, L) on a queue with numListeners >= 1 and no slot
\* holding L returns -4 and leaves numListeners and every slot unchanged.
C11_RemoveAbsentIsNotFound ==
  [][(RemoveCalled /\ numListeners >= 1 /\ ~Registered(lastOp'.el)) =>
       /\ lastOp'.ret = -4
       /\ UNCHANGED <<listeners, numListeners>>]_vars

\* C11 witness: a removeListener that returned -4 on a queue holding the
\* other listener.
C11_Witness ==
  /\ lastOp.op = "removeListener"
  /\ lastOp.ret = -4
  /\ numListeners >= 1
  /\ \E l \in Listeners : l # lastOp.el /\ Registered(l)
  /\ ~Registered(lastOp.el)

\* C12: removeListener with a listener on a queue whose numListeners is 0
\* returns -2, not -4, and leaves the queue unchanged.
C12_RemoveOnEmptyQueue ==
  [][(RemoveCalled /\ numListeners = 0) =>
       /\ lastOp'.ret = -2
       /\ UNCHANGED <<listeners, numListeners>>]_vars

\* C12 witness: a removeListener that returned -2 on an empty queue, for a
\* listener that holds an event received while it was registered.
C12_Witness ==
  /\ lastOp.op = "removeListener"
  /\ lastOp.ret = -2
  /\ lastOp.el # NULL
  /\ numListeners = 0
  /\ numEvents[lastOp.el] >= 1

\* C16: getNextEvent returns -1 for a null listener whatever the destination,
\* -2 for a listener and a null destination whatever the count, and -3 only
\* for a listener with count 0 and a destination; appendEvent returns -1 for
\* a null listener; none of these calls changes a count, a buffer or the
\* destination.
C16_ListenerErrorPriority ==
  [][/\ Called("getNextEvent") =>
          /\ lastOp'.el = NULL => lastOp'.ret = -1
          /\ (lastOp'.el # NULL /\ lastOp'.dest = NULL) => lastOp'.ret = -2
          /\ lastOp'.ret = -3 <=>
               (/\ lastOp'.el # NULL
                /\ lastOp'.dest # NULL
                /\ numEvents[lastOp'.el] = 0)
          /\ lastOp'.ret < 0 =>
               /\ UNCHANGED <<numEvents, events>>
               /\ lastOp'.out = lastOp'.dest
     /\ Called("appendEvent") =>
          /\ lastOp'.el = NULL => lastOp'.ret = -1
          /\ lastOp'.ret < 0 => UNCHANGED <<numEvents, events>>]_vars

\* C16 witness: getNextEvent called with a null listener and a null
\* destination returned -1 while a listener holds events.
C16_Witness ==
  /\ lastOp.op = "getNextEvent"
  /\ lastOp.el = NULL
  /\ lastOp.dest = NULL
  /\ lastOp.ret = -1
  /\ \E l \in Listeners : numEvents[l] >= 1

\* C13: sendEvent returns 0 or -1 and leaves numListeners and every slot of
\* the caller's queue unchanged; it changes the count and buffer of no
\* listener other than those held in the queue's slots.
C13_SendLeavesRegistry ==
  [][Called("sendEvent") =>
       /\ lastOp'.ret \in {0, -1}
       /\ UNCHANGED <<listeners, numListeners>>
       /\ \A l \in Listeners :
            ~Registered(l) =>
              numEvents'[l] = numEvents[l] /\ events'[l] = events[l]]_vars

\* C13 witness: a broadcast that returned -1, delivered to a registered
\* listener and left a listener that is not registered empty.
C13_Witness ==
  /\ lastOp.op = "sendEvent"
  /\ lastOp.ret = -1
  /\ \E l \in Listeners :
       Registered(l) /\ numEvents[l] >= 1 /\ events[l][numEvents[l] - 1] = lastOp.e
  /\ \E l \in Listeners : ~Registered(l) /\ numEvents[l] = 0

\* C14: whatever the state, initEventListener yields a listener with count 0
\* on which getNextEvent returns -3, and initEventQueue yields a queue with
\* numListeners 0 and every slot empty; a second init of the same object
\* changes nothing.
C14_InitResetsAndIsIdempotent ==
  [][/\ Called("initEventListener") =>
          LET l == lastOp'.el
              H == [numEvents |-> numEvents', events |-> events',
                    arrival |-> arrival']
          IN /\ numEvents'[l] = 0
             /\ \A d \in EventIds :
                  \A r \in getNextEvent(H, l, d) : r.ret = -3 /\ r.dest = d
             /\ initEventListener(H, l) = H
     /\ Called("initEventQueue") =>
          LET Q == [numListeners |-> numListeners', listeners |-> listeners']
          IN /\ numListeners' = 0
             /\ \A i \in SlotIndex : listeners'[i] = NULL
             /\ initEventQueue(Q) = Q]_vars

\* C14 witness: an initEventListener of a listener whose buffer holds two
\* different ids (events had been appended to it), on a queue holding it.
C14_Witness ==
  /\ lastOp.op = "initEventListener"
  /\ numEvents[lastOp.el] = 0
  /\ events[lastOp.el][0] # events[lastOp.el][1]
  /\ Registered(lastOp.el)

\* The indices at which the appendEvent and getNextEvent calls that a client
\* can make in the current state, with any arguments, access an events array.
ListenerAccesses ==
  UNION ({appendEvent(Heap, el, initEvent(id)).acc :
            el \in Listeners \cup {NULL}, id \in EventIds}
         \cup {r.acc : r \in UNION {getNextEvent(Heap, el, dest) :
                                      el \in Listeners \cup {NULL},
                                      dest \in EventIds \cup {NULL}}})

\* C15: every index at which a call reads or writes a listener's events
\* array is in 0 .. MAX_EVENTS-1, and every index at which it reads or writes
\* the queue's listeners array is in 0 .. MAX_EVENT_LISTENERS-1: this holds of
\* the queue call just made (initEventQueue, addListener, removeListener,
\* sendEvent and the appendEvent calls it makes) and of every appendEvent and
\* getNextEvent call that can be made next.
C15_AccessesInRange ==
  /\ \A i \in lastOp.acc \cup ListenerAccesses : 0 <= i /\ i <= MAX_EVENTS - 1
  /\ \A i \in lastOp.slots : 0 <= i /\ i <= MAX_EVENT_LISTENERS - 1

\* C15 witness: a broadcast over a full registry that wrote the last element
\* of a buffer and read the last slot of the queue, leaving a full listener
\* (appendEvent on it accesses nothing) and one whose getNextEvent reads
\* index 0.
C15_Witness ==
  /\ lastOp.op = "sendEvent"
  /\ (MAX_EVENTS - 1) \in lastOp.acc
  /\ (MAX_EVENT_LISTENERS - 1) \in lastOp.slots
  /\ numListeners = MAX_EVENT_LISTENERS
  /\ \E l \in Listeners : numEvents[l] = MAX_EVENTS
  /\ \E l \in Listeners : numEvents[l] = 1

\* The step is an addListener with a queue and a listener.
AddCalled == Called("addListener") /\ ~lastOp'.eqNull /\ lastOp'.el # NULL

\* C17: addListener does not detect a listener that is already registered.
\* addListener(q, L) on a queue with at least two free slots returns 0; a
\* second addListener(q, L) right after it returns 0 too; each of the two
\* calls puts L in one more slot and raises numListeners by one.  A sendEvent
\* that follows the two calls appends its event to L at least twice when L
\* has room for two events, and exactly twice (the count grows by 2) when the
\* two slots are the only ones holding L.
C17_DuplicateRegistration ==
  [][/\ (AddCalled /\ numListeners + 2 <= MAX_EVENT_LISTENERS) =>
          lastOp'.ret = 0
     /\ (/\ AddCalled
         /\ lastOp.op = "addListener" /\ lastOp.ret = 0
         /\ lastOp.el = lastOp'.el
         /\ numListeners < MAX_EVENT_LISTENERS) =>
          /\ lastOp'.ret = 0
          /\ lastOp'.again
          /\ Occurrences(lastOp'.el) >= 1
     /\ (AddCalled /\ lastOp'.ret = 0) =>
          /\ Cardinality({i \in SlotIndex : listeners'[i] = lastOp'.el})
               = Occurrences(lastOp'.el) + 1
          /\ numListeners' = numListeners + 1
     /\ (/\ Called("sendEvent")
         /\ lastOp.again
         /\ numEvents[lastOp.el] + 2 <= MAX_EVENTS) =>
          LET l == lastOp.el
              n == numEvents[l]
          IN /\ Occurrences(l) >= 2
             /\ numEvents'[l] >= n + 2
             /\ Occurrences(l) = 2 => numEvents'[l] = n + 2
             /\ events'[l][n] = lastOp'.e
             /\ events'[l][n + 1] = lastOp'.e]_vars

\* C17 witness: a broadcast that returned 0 and left two events with its id
\* in a listener held in two slots, the only occupied ones.
C17_Witness ==
  /\ lastOp.op = "sendEvent"
  /\ lastOp.ret = 0
  /\ numListeners = 2
  /\ \E l \in Listeners :
       /\ Occurrences(l) = 2
       /\ listeners[0] = l /\ listeners[1] = l
       /\ numEvents[l] = 2
       /\ events[l][0] = lastOp.e /\ events[l][1] = lastOp.e

\* C18: the return of -2 at the end of addListener, after a scan that found
\* no empty slot, is never taken: whenever numListeners is below
\* MAX_EVENT_LISTENERS some slot is empty, and the last call is not an
\* addListener that scanned every slot and returned -2.
C18_FallbackUnreachable ==
  /\ numListeners < MAX_EVENT_LISTENERS =>
       \E i \in SlotIndex : listeners[i] = NULL
  /\ ~(/\ lastOp.op = "addListener"
       /\ lastOp.ret = -2
       /\ lastOp.slots = SlotIndex)

\* C18 witness: an addListener that stored the listener in slot 0 of a queue
\* with holes and left one empty slot, below the occupied last slot.
C18_Witness ==
  /\ lastOp.op = "addListener"
  /\ lastOp.ret = 0
  /\ lastOp.slots = {0}
  /\ numListeners = MAX_EVENT_LISTENERS - 1
  /\ listeners[MAX_EVENT_LISTENERS - 1] # NULL
  /\ \E i \in SlotIndex : listeners[i] = NULL

\* The last index of the listeners array read by the call c: the slot that a
\* removeListener that returned 0 cleared, or an addListener that returned 0
\* filled.
LastSlot(c) == CHOOSE i \in c.slots : \A k \in c.slots : k <= i

\* C19: an addListener that returns 0 stores the listener in the empty slot
\* of lowest index and changes no other slot; an addListener with a queue and
\* a listener that follows a removeListener that returned 0 on a full queue
\* returns 0 and stores the listener in the slot that call cleared.
C19_AddFillsLowestEmptySlot ==
  [][/\ (Called("addListener") /\ lastOp'.ret = 0) =>
          \E i \in SlotIndex :
            /\ listeners[i] = NULL
            /\ \A k \in SlotIndex : k < i => listeners[k] # NULL
            /\ listeners' = [listeners EXCEPT ![i] = lastOp'.el]
     /\ (/\ AddCalled
         /\ lastOp.op = "removeListener" /\ lastOp.ret = 0
         /\ numListeners = MAX_EVENT_LISTENERS - 1) =>
          /\ lastOp'.ret = 0
          /\ listeners[LastSlot(lastOp)] = NULL
          /\ listeners' = [listeners EXCEPT ![LastSlot(lastOp)] = lastOp'.el]]_vars

\* C19 witness: an addListener that filled the only empty slot of the queue,
\* below the last slot, with a listener other than the one in the last slot.
C19_Witness ==
  /\ lastOp.op = "addListener"
  /\ lastOp.ret = 0
  /\ numListeners = MAX_EVENT_LISTENERS
  /\ lastOp.slots # SlotIndex
  /\ listeners[LastSlot(lastOp)] = lastOp.el
  /\ listeners[MAX_EVENT_LISTENERS - 1] # lastOp.el

\* C20 as stated: a sendEvent that directly follows a removeListener(q, L)
\* that returned 0 (L has not been added again) changes neither the count nor
\* the buffer of L.
C20_RemoveStopsDelivery ==
  [][(/\ Called("sendEvent")
      /\ lastOp.op = "removeListener" /\ lastOp.ret = 0) =>
       /\ numEvents'[lastOp.el] = numEvents[lastOp.el]
       /\ events'[lastOp.el] = events[lastOp.el]]_vars

\* C20 amended: a removeListener(q, L) that returns 0 on a queue holding L in
\* exactly one slot leaves L in no slot; a listener held in no slot stays so
\* until an addListener for it returns 0; and sendEvent changes neither the
\* count nor the buffer of a listener held in no slot.
C20_LastRemoveStopsDelivery ==
  [][/\ (RemoveCalled /\ lastOp'.ret = 0 /\ Occurrences(lastOp'.el) = 1) =>
          \A i \in SlotIndex : listeners'[i] # lastOp'.el
     /\ \A l \in Listeners :
          (~Registered(l) /\ \E i \in SlotIndex : listeners'[i] = l) =>
            (AddCalled /\ lastOp'.el = l /\ lastOp'.ret = 0)
     /\ \A l \in Listeners :
          (~Registered(l) /\ Called("sendEvent")) =>
            (numEvents'[l] = numEvents[l] /\ events'[l] = events[l])]_vars

\* C20 witness: a broadcast that returned 0 and delivered to the registered
\* listener while the other listener, removed from the queue after it had
\* received an event, is held in no slot and still holds that one event.
C20_Witness ==
  /\ lastOp.op = "sendEvent"
  /\ lastOp.ret = 0
  /\ \E l, m \in Listeners :
       /\ ~Registered(l)
       /\ numEvents[l] = 1
       /\ Registered(m)
       /\ numEvents[m] = 2
       /\ events[m][1] = lastOp.e

====
